---- MODULE Spec2Model ----
(***************************************************************************)
(* A model of the command-line flow of ChatGPT-Next-Web-Session-Exporter   *)
(* (src/main.go): the main goroutine, the signal-handler goroutine, the    *)
(* reader goroutines started by promptForInput, standard input, the file   *)
(* system behind filesystem.FileSystem, standard output and the exit       *)
(* status of the process.                                                  *)
(*                                                                         *)
(* Strings are sequences of one-character strings, so that TrimSpace,      *)
(* ToLower, Atoi and concatenation are computed as the Go code computes    *)
(* them.                                                                   *)
(***************************************************************************)
EXTENDS Integers, Sequences, FiniteSets, TLC

\* ------------------------------------------------------------------ bounds
\* The number of chunks the user may have typed ahead of the program.
MaxAhead == 1

\* ----------------------------------------------------------------- strings
sYes      == <<"y", "e", "s">>
sYesMixed == <<" ", "Y", "e", "s", " ">>
s1        == <<"1">>
s2        == <<"2">>
s3        == <<"3">>
s7        == <<"7">>
sAjson    == <<"a", ".", "j", "s", "o", "n">>
sAjsonJson == <<"a", ".", "j", "s", "o", "n", ".", "j", "s", "o", "n">>
sEmpty    == << >>
sNL       == <<"\n">>

\* The lines a user may type (without the terminating newline).
Inputs == {sYesMixed, s1, s2, s3, s7, sAjson, sEmpty}

\* An unterminated last chunk that may precede end of input.
Partials == {sYes}

\* main.go:33
FileTypeDataset == <<"d", "a", "t", "a", "s", "e", "t">>
sCsvType  == <<"c", "s", "v">>
sDotJson  == <<".", "j", "s", "o", "n">>
sDotCsv   == <<".", "c", "s", "v">>
sRepaired == <<"r", "e", "p", "a", "i", "r", "e", "d", "_">>

\* updater.go: const currentVersion = "1.3.3.7"
currentVersion == <<"1", ".", "3", ".", "3", ".", "7">>
sOlderTag == <<"1", ".", "3", ".", "3", ".", "6">>
sNewerTag == <<"1", ".", "3", ".", "4", ".", "0">>
\* the tags the latest release may carry
Tags == {currentVersion, sOlderTag, sNewerTag}
\* the name of the binary in applyUpdate
sBinary == <<"C","h","a","t","G","P","T","-","N","e","x","t","-","W","e","b","-",
             "S","e","s","s","i","o","n","-","E","x","p","o","r","t","e","r">>
\* the temporary file of os.CreateTemp
sTemp == sBinary \o <<"-","u","p","d","a","t","e","-","0">>

\* main.go:25-30
OutputFormatCSV         == 1
OutputFormatDataset     == 2
OutputFormatInline      == 1
OutputFormatPerLine     == 2
OutputFormatSeparateCSV == 3
OutputFormatJSONInCSV   == 4

\* error values
Nil       == "nil"
Canceled  == "context.Canceled"
EOF       == "io.EOF"
ErrRead   == "read error"
ErrIO     == "I/O error"
ErrNotExist == "file does not exist"
ErrRepair == "repair failed"
ErrParse  == "parse error"
ErrFormat == "invalid format option"
ErrOther  == "error"

\* unicode.IsSpace restricted to the characters of the model's alphabet
IsSpace(c) == c \in {" ", "\t", "\n", "\r"}

RECURSIVE TrimLeft(_)
TrimLeft(s) == IF s # << >> /\ IsSpace(Head(s)) THEN TrimLeft(Tail(s)) ELSE s

RECURSIVE TrimRight(_)
TrimRight(s) ==
    IF s # << >> /\ IsSpace(s[Len(s)])
    THEN TrimRight(SubSeq(s, 1, Len(s) - 1))
    ELSE s

\* a mutant of TrimSpace: the line is returned as read
TrimSpaceRaw(s) == s

\* strings.TrimSpace
TrimSpace(s) == TrimRight(TrimLeft(s))

UpperChars == <<"A","B","C","D","E","F","G","H","I","J","K","L","M",
                "N","O","P","Q","R","S","T","U","V","W","X","Y","Z">>
LowerChars == <<"a","b","c","d","e","f","g","h","i","j","k","l","m",
                "n","o","p","q","r","s","t","u","v","w","x","y","z">>

LowerChar(c) ==
    IF \E i \in 1..Len(UpperChars) : UpperChars[i] = c
    THEN LowerChars[CHOOSE i \in 1..Len(UpperChars) : UpperChars[i] = c]
    ELSE c

\* strings.ToLower
ToLower(s) == [i \in 1..Len(s) |-> LowerChar(s[i])]

Digits == <<"0", "1", "2", "3", "4", "5", "6", "7", "8", "9">>
IsDigit(c) == \E i \in 1..10 : Digits[i] = c
DigitVal(c) == (CHOOSE i \in 1..10 : Digits[i] = c) - 1

RECURSIVE DigitsVal(_)
DigitsVal(s) ==
    IF s = << >> THEN 0
    ELSE 10 * DigitsVal(SubSeq(s, 1, Len(s) - 1)) + DigitVal(s[Len(s)])

\* strconv.Atoi: an optional sign followed by one or more decimal digits
Atoi(s) ==
    LET body == IF s # << >> /\ Head(s) \in {"+", "-"} THEN Tail(s) ELSE s
        neg  == s # << >> /\ Head(s) = "-"
    IN  IF body # << >> /\ \A i \in 1..Len(body) : IsDigit(body[i])
        THEN [ok |-> TRUE, val |-> IF neg THEN 0 - DigitsVal(body) ELSE DigitsVal(body)]
        ELSE [ok |-> FALSE, val |-> 0]

\* strings.HasSuffix
HasSuffix(s, suf) ==
    /\ Len(s) >= Len(suf)
    /\ SubSeq(s, Len(s) - Len(suf) + 1, Len(s)) = suf

\* a message on standard output
Msg(kind, arg) == [msg |-> kind, arg |-> arg]

\* --------------------------------------------------------------- variables
VARIABLES
    entry,             \* the function under execution: main, or writeContentToFile called directly
    fileType,          \* the fileType argument of saveToFile / writeContentToFile
    pc,                \* position of the main flow
    ret,               \* where the running promptForInput returns to
    coRet,             \* where the running ConfirmOverwrite returns to
    ctxDone,           \* the context passed down from main has been cancelled
    sigBuf,            \* number of signals buffered in the signals channel (capacity 1)
    handler,           \* the goroutine of setupSignalHandling: "waiting" or "done"
    sigAtPrompt,       \* a signal was delivered while main was blocked in a promptForInput
    stdin,             \* chunks typed and not yet read, as ReadString('\n') returns them
    stdinState,        \* "open", "eof" or "error"
    readers,           \* the reader goroutines of promptForInput, by call number
    late,              \* the last promptForInput started with the context cancelled
    upd,               \* UpdateApplication: the release fetched, the temporary file,
                       \* whether the binary was replaced and the application restarted
    res,               \* the pair returned by the last promptForInput
    co,                \* the pair returned by the last ConfirmOverwrite, the name it was
                       \* asked about, and the names confirmed so far in this run
    jsonFilePath, formatOption, csvFileName,
    sessionsFileName, messagesFileName, fileName,
    fs,                \* the file system: path -> content
    writes,            \* the calls that wrote or tried to write a file, in order
    out,               \* the messages written to standard output so far
    rep,               \* the pair returned by repairJSONData
    status,            \* "running", "exit0", "exit1", or "returned" (writeContentToFile)
    retErr             \* the error returned by writeContentToFile

ctl    == <<entry, fileType, pc, ret, coRet, late, upd>>
sigs   == <<ctxDone, sigBuf, handler, sigAtPrompt>>
input  == <<stdin, stdinState, readers>>
locals == <<jsonFilePath, formatOption, csvFileName, sessionsFileName, messagesFileName, fileName>>
world  == <<fs, writes>>
vars   == <<ctl, sigs, input, res, co, rep, locals, world, out, status, retErr>>

\* ------------------------------------------------------------- file system
\* Contents are abstract: "good" parses into a Store, "broken" is damaged but
\* repairable JSON, "junk" is beyond repair, "old" is a file of no interest.
InitialContents == {"good", "broken", "junk"}

InitialFS ==
    { [p \in {sAjson} |-> c] : c \in InitialContents \ {"good"} } \cup
    { [p \in {sAjson, sAjsonJson} |-> IF p = sAjson THEN "good" ELSE "old"] }

\* The working directory of the updater: the binary is there, or is not.
UpdaterFS == { [p \in {sBinary} |-> "binary"], [p \in {sAjson} |-> "old"] }

Exists(path) == path \in DOMAIN fs

\* the file system after a successful WriteFile(path, content)
Written(path, content) ==
    [p \in DOMAIN fs \cup {path} |-> IF p = path THEN content ELSE fs[p]]

WriteRec(caller, path, ok) ==
    [caller |-> caller, path |-> path, ok |-> ok, cancelled |-> ctxDone,
     signalled |-> (sigBuf = 1 \/ handler = "done")]

\* rfs.WriteFile(path, content, 0644) called by `caller`; an empty path cannot
\* be written, any other write succeeds or fails.
WriteFile(caller, path, content, ok) ==
    /\ (path = << >>) => ~ok
    /\ writes' = Append(writes, WriteRec(caller, path, ok))
    /\ fs' = IF ok THEN Written(path, content) ELSE fs

\* ------------------------------------------------------------------- Init
NoRes == [input |-> << >>, err |-> Nil]
NoCo  == [ok |-> FALSE, err |-> Nil, name |-> << >>, confirmed |-> {}]
NoRep == [path |-> << >>, err |-> Nil]
NoUpd == [tag |-> << >>, hasAsset |-> FALSE, temp |-> << >>,
          replaced |-> FALSE, restarted |-> FALSE]

Init ==
    /\ entry \in {"main", "writeContentToFile", "UpdateApplication"}
    /\ fileType \in IF entry = "writeContentToFile" THEN {FileTypeDataset, sCsvType}
                                                       ELSE {FileTypeDataset}
    /\ pc = CASE entry = "main" -> "m_path"
              [] entry = "writeContentToFile" -> "wc_name"
              [] OTHER -> "u_fetch"
    /\ upd = NoUpd
    /\ ret = "none"
    /\ coRet = "none"
    /\ ctxDone \in IF entry = "writeContentToFile" THEN BOOLEAN ELSE {FALSE}
    /\ sigBuf = 0
    /\ sigAtPrompt = FALSE
    /\ handler = IF entry = "main" THEN "waiting" ELSE "absent"
    /\ stdin = << >>
    /\ stdinState = "open"
    /\ readers = << >>
    /\ late = FALSE
    /\ res = NoRes
    /\ co = NoCo
    /\ rep = NoRep
    /\ jsonFilePath = << >>
    /\ formatOption = 0
    /\ csvFileName = << >>
    /\ sessionsFileName = << >>
    /\ messagesFileName = << >>
    /\ fileName = << >>
    /\ fs \in IF entry = "UpdateApplication" THEN UpdaterFS ELSE InitialFS
    /\ writes = << >>
    /\ out = {}
    /\ status = "running"
    /\ retErr = Nil

Running == status = "running"

\* ------------------------------------------------------------ environment
\* The user types a line.
UserTypes ==
    /\ Running /\ stdinState = "open" /\ Len(stdin) < MaxAhead
    /\ \E l \in Inputs : stdin' = Append(stdin, l \o sNL)
    /\ UNCHANGED <<ctl, sigs, stdinState, readers, res, co, rep, locals, world, out, status, retErr>>

\* Standard input ends, possibly after an unterminated last chunk.
UserCloses ==
    /\ Running /\ stdinState = "open"
    /\ stdinState' = "eof"
    /\ \/ stdin' = stdin
       \/ /\ Len(stdin) < MaxAhead
          /\ \E l \in Partials : stdin' = Append(stdin, l)
    /\ UNCHANGED <<ctl, sigs, readers, res, co, rep, locals, world, out, status, retErr>>

\* Reading standard input starts to fail.
StdinFails ==
    /\ Running /\ stdinState = "open"
    /\ stdinState' = "error"
    /\ UNCHANGED <<ctl, sigs, stdin, readers, res, co, rep, locals, world, out, status, retErr>>

\* SIGINT or SIGTERM is delivered; the channel of signal.Notify holds one.
Signal ==
    /\ Running /\ entry = "main" /\ sigBuf = 0
    /\ sigBuf' = 1
    /\ sigAtPrompt' = (sigAtPrompt \/ (pc = "select" /\ readers[Len(readers)].st = "reading" /\ ~ctxDone))
    /\ UNCHANGED <<ctl, ctxDone, handler, input, res, co, rep, locals, world, out, status, retErr>>

\* The caller of writeContentToFile cancels the context it passed.
CallerCancels ==
    /\ Running /\ entry = "writeContentToFile" /\ ~ctxDone
    /\ ctxDone' = TRUE
    /\ UNCHANGED <<ctl, sigBuf, handler, sigAtPrompt, input, res, co, rep, locals, world, out, status, retErr>>

\* The goroutine of setupSignalHandling.
setupSignalHandling ==
    /\ Running /\ handler = "waiting" /\ sigBuf = 1
    /\ sigBuf' = 0
    /\ handler' = "done"
    /\ out' = out \cup {Msg("ExitingGracefully", << >>)}
    /\ ctxDone' = TRUE
    /\ UNCHANGED <<ctl, sigAtPrompt, input, res, co, rep, locals, world, status, retErr>>

\* ---------------------------------------------------------- promptForInput
\* reader.ReadString('\n') on the current state of standard input
CanRead == stdin # << >> \/ stdinState # "open"

ReadString ==
    IF stdin # << >>
    THEN [input |-> Head(stdin),
          err   |-> IF Head(stdin)[Len(Head(stdin))] = "\n" THEN Nil ELSE EOF]
    ELSE [input |-> << >>, err |-> IF stdinState = "eof" THEN EOF ELSE ErrRead]

\* promptForInput up to the select: print the prompt, start the reader.
promptForInput(prompt, arg, retLabel) ==
    /\ out' = out \cup {Msg(prompt, arg)}
    /\ readers' = Append(readers, [st |-> "reading", input |-> << >>, err |-> Nil])
    /\ pc' = "select"
    /\ ret' = retLabel
    /\ late' = ctxDone

\* The reader goroutine k completes its read and is ready to send. The
\* goroutines live as long as the process: they go on after
\* writeContentToFile or UpdateApplication returned to its caller.
ReaderRead ==
    /\ status \in {"running", "returned"}
    /\ \E k \in 1..Len(readers) :
        /\ readers[k].st = "reading"
        /\ CanRead
        /\ readers' = [readers EXCEPT ![k] =
                          [st |-> "sending", input |-> ReadString.input, err |-> ReadString.err]]
        /\ stdin' = IF stdin # << >> THEN Tail(stdin) ELSE stdin
    /\ UNCHANGED <<ctl, sigs, stdinState, res, co, rep, locals, world, out, status, retErr>>

\* a mutant of selectCtxDone: the reader of the call ends with the call
selectCtxDoneDraining ==
    /\ Running /\ pc = "select"
    /\ ctxDone
    /\ res' = [input |-> << >>, err |-> Canceled]
    /\ readers' = [readers EXCEPT ![Len(readers)] = [st |-> "done", input |-> << >>, err |-> Nil]]
    /\ pc' = ret
    /\ UNCHANGED <<entry, fileType, upd, late, ret, coRet, sigs, stdin, stdinState, co, rep, locals, world, out, status, retErr>>

\* select, case <-ctx.Done()
selectCtxDone ==
    /\ Running /\ pc = "select"
    /\ ctxDone
    /\ res' = [input |-> << >>, err |-> Canceled]
    /\ pc' = ret
    /\ UNCHANGED <<entry, fileType, upd, late, ret, coRet, sigs, input, co, rep, locals, world, out, status, retErr>>

\* select, case res := <-resultChan: the channel belongs to this call
selectResult ==
    /\ Running /\ pc = "select"
    /\ readers[Len(readers)].st = "sending"
    /\ res' = [input |-> TrimSpace(readers[Len(readers)].input),
               err   |-> readers[Len(readers)].err]
    /\ readers' = [readers EXCEPT ![Len(readers)] = [st |-> "done", input |-> << >>, err |-> Nil]]
    /\ pc' = ret
    /\ UNCHANGED <<entry, fileType, upd, late, ret, coRet, sigs, stdin, stdinState, co, rep, locals, world, out, status, retErr>>

\* ---------------------------------------------------------- error handlers
GracefulError(err) == err = Canceled \/ err = EOF

\* a mutant of handleInputError: cancellation ends with status 1
handleInputErrorFailing(err) ==
    /\ out' = out \cup {Msg("GopherErrorReadingInput", << >>)}
    /\ status' = "exit1"
    /\ pc' = "exited"

\* handleInputError
handleInputError(err) ==
    /\ out' = out \cup {IF GracefulError(err)
                          THEN Msg("ExitingGracefullyReason", << >>)
                          ELSE Msg("GopherErrorReadingInput", << >>)}
    /\ status' = IF GracefulError(err) THEN "exit0" ELSE "exit1"
    /\ pc' = "exited"

\* the handler written out in processCSVOption, processDatasetOption and
\* createSeparateCSVFiles
inlineInputError(err) ==
    /\ out' = out \cup {IF GracefulError(err)
                          THEN Msg("ExitingGracefullyReason", << >>)
                          ELSE Msg("ErrorReadingInput", << >>)}
    /\ status' = IF GracefulError(err) THEN "exit0" ELSE "exit1"
    /\ pc' = "exited"

\* main returns: the deferred cancel runs and the process ends with status 0
mainReturns(msgs) ==
    /\ out' = out \cup msgs
    /\ status' = "exit0"
    /\ pc' = "exited"

\* what promptForInput's first half leaves alone
PromptFrame ==
    UNCHANGED <<entry, fileType, upd, coRet, sigs, stdin, stdinState, res, co, rep, locals, world, status, retErr>>

\* what a step that ends the process leaves alone
ExitFrame ==
    UNCHANGED <<entry, fileType, upd, late, ret, coRet, sigs, input, res, co, rep, locals, world, retErr>>

\* what a step that only moves the main flow leaves alone
MoveFrame ==
    UNCHANGED <<entry, fileType, upd, late, ret, coRet, sigs, input, res, co, rep, world, out, status, retErr>>

\* -------------------------------------------------------------------- main
\* main.go:63  promptForInput(ctx, reader, PromptEnterJSONFilePath)
main_promptPath ==
    /\ Running /\ pc = "m_path"
    /\ promptForInput("PromptEnterJSONFilePath", << >>, "m_path_ret")
    /\ PromptFrame

\* a mutant of main_pathRead: the error of the prompt is ignored
main_pathReadIgnoring ==
    /\ Running /\ pc = "m_path_ret"
    /\ jsonFilePath' = res.input
    /\ pc' = "m_repair"
    /\ UNCHANGED <<formatOption, csvFileName, sessionsFileName, messagesFileName, fileName>>
    /\ MoveFrame

\* main.go:64-67
main_pathRead ==
    /\ Running /\ pc = "m_path_ret"
    /\ IF res.err # Nil
       THEN handleInputError(res.err) /\ ExitFrame
       ELSE /\ jsonFilePath' = res.input
            /\ pc' = "m_repair"
            /\ UNCHANGED <<formatOption, csvFileName, sessionsFileName, messagesFileName, fileName>>
            /\ MoveFrame

\* main.go:70  promptForInput(ctx, reader, PromptRepairData)
main_promptRepair ==
    /\ Running /\ pc = "m_repair"
    /\ promptForInput("PromptRepairData", << >>, "m_repair_ret")
    /\ PromptFrame

\* main.go:71-76
main_repairRead ==
    /\ Running /\ pc = "m_repair_ret"
    /\ IF res.err # Nil
       THEN handleInputError(res.err) /\ ExitFrame
       ELSE /\ pc' = IF ToLower(res.input) = sYes THEN "m_repair_call" ELSE "m_load"
            /\ UNCHANGED locals
            /\ MoveFrame

\* ---------------------------------------------------------- repairJSONData
\* rfs.ReadFile(path)
ReadFile(path) ==
    IF Exists(path) THEN [data |-> fs[path], err |-> Nil]
                    ELSE [data |-> "", err |-> ErrNotExist]

\* repairdata.RepairSessionData(data): well-formed data is returned as it is,
\* damaged data is repaired, data beyond repair is an error
RepairSessionData(data) ==
    CASE data = "broken" -> [data |-> "repaired", err |-> Nil]
      [] data \in {"good", "repaired"} -> [data |-> data, err |-> Nil]
      [] OTHER -> [data |-> "", err |-> ErrRepair]

\* a mutant of RepairedPath: the repaired data goes to the input path
RepairedPathInPlace(jsonPath) == jsonPath

\* main.go:306  repairedPath := "repaired_" + jsonFilePath
RepairedPath(jsonPath) == sRepaired \o jsonPath

\* a mutant of repairJSONData: the data read is written before it is repaired
repairJSONDataEager ==
    /\ Running /\ pc = "m_repair_call"
    /\ LET rd == ReadFile(jsonFilePath)
           rp == RepairSessionData(rd.data)
       IN  IF rd.err # Nil
           THEN /\ rep' = [path |-> << >>, err |-> rd.err]
                /\ UNCHANGED world
           ELSE \E ok \in BOOLEAN :
                   /\ WriteFile("repairJSONData", RepairedPath(jsonFilePath), rd.data, ok)
                   /\ rep' = IF rp.err # Nil THEN [path |-> << >>, err |-> rp.err]
                             ELSE IF ok THEN [path |-> RepairedPath(jsonFilePath), err |-> Nil]
                             ELSE [path |-> << >>, err |-> ErrIO]
    /\ pc' = "m_repaired"
    /\ UNCHANGED <<entry, fileType, upd, late, ret, coRet, sigs, input, res, co, locals, out, status, retErr>>

\* main.go:292-316  repairJSONData(rfs, ctx, jsonFilePath), called at main.go:80
repairJSONData ==
    /\ Running /\ pc = "m_repair_call"
    /\ LET rd == ReadFile(jsonFilePath)
           rp == RepairSessionData(rd.data)
       IN  IF rd.err # Nil
           THEN /\ rep' = [path |-> << >>, err |-> rd.err]
                /\ UNCHANGED world
           ELSE IF rp.err # Nil
           THEN /\ rep' = [path |-> << >>, err |-> rp.err]
                /\ UNCHANGED world
           ELSE \E ok \in BOOLEAN :
                   /\ WriteFile("repairJSONData", RepairedPath(jsonFilePath), rp.data, ok)
                   /\ rep' = IF ok THEN [path |-> RepairedPath(jsonFilePath), err |-> Nil]
                                   ELSE [path |-> << >>, err |-> ErrIO]
    /\ pc' = "m_repaired"
    /\ UNCHANGED <<entry, fileType, upd, late, ret, coRet, sigs, input, res, co, locals, out, status, retErr>>

\* main.go:81-86
main_repaired ==
    /\ Running /\ pc = "m_repaired"
    /\ IF rep.err # Nil
       THEN /\ out' = out \cup {Msg("Error", << >>)}
            /\ status' = "exit1"
       ELSE /\ out' = out \cup {Msg("RepairedSavedTo", rep.path)}
            /\ status' = "exit0"
    /\ pc' = "exited"
    /\ ExitFrame

\* exporter.ReadJSONFromFile(path): the file is read and parsed into a Store
ReadJSONFromFile(path) ==
    IF ~Exists(path) THEN ErrNotExist
    ELSE IF fs[path] \in {"good", "repaired"} THEN Nil
    ELSE ErrParse

\* a mutant of main_load: a load failure is reported and the run goes on
main_loadLenient ==
    /\ Running /\ pc = "m_load"
    /\ out' = IF ReadJSONFromFile(jsonFilePath) # Nil
              THEN out \cup {Msg("ErrorReadingOrParsing", << >>)} ELSE out
    /\ pc' = "m_option"
    /\ UNCHANGED locals
    /\ UNCHANGED <<entry, fileType, upd, late, ret, coRet, sigs, input, res, co, rep, world, status, retErr>>

\* main.go:90-94
main_load ==
    /\ Running /\ pc = "m_load"
    /\ IF ReadJSONFromFile(jsonFilePath) # Nil
       THEN /\ out' = out \cup {Msg("ErrorReadingOrParsing", << >>)}
            /\ status' = "exit1"
            /\ pc' = "exited"
            /\ ExitFrame
       ELSE /\ pc' = "m_option"
            /\ UNCHANGED locals
            /\ MoveFrame

\* main.go:97  promptForInput(ctx, reader, PromptSelectOutputFormat)
main_promptOutput ==
    /\ Running /\ pc = "m_option"
    /\ promptForInput("PromptSelectOutputFormat", << >>, "m_option_ret")
    /\ PromptFrame

\* a mutant of processOutputOption: an unknown option falls through to the dataset
processOutputOptionDefaulting(outputOption) ==
    IF outputOption = s1
    THEN /\ pc' = "csv_format"
         /\ UNCHANGED locals
         /\ MoveFrame
    ELSE /\ pc' = "ds_extract"
         /\ UNCHANGED locals
         /\ MoveFrame

\* main.go:164-173  processOutputOption
processOutputOption(outputOption) ==
    CASE outputOption = s1 ->
            /\ pc' = "csv_format"
            /\ UNCHANGED locals
            /\ MoveFrame
      [] outputOption = s2 ->
            /\ pc' = "ds_extract"
            /\ UNCHANGED locals
            /\ MoveFrame
      [] OTHER ->
            /\ mainReturns({Msg("InvalidOutputOption", << >>)})
            /\ ExitFrame

\* main.go:98-105
main_outputRead ==
    /\ Running /\ pc = "m_option_ret"
    /\ IF res.err # Nil
       THEN handleInputError(res.err) /\ ExitFrame
       ELSE processOutputOption(res.input)

\* --------------------------------------------------------- ConfirmOverwrite
\* interactivity.ConfirmOverwrite(rfs, ctx, reader, name): a destination that
\* does not exist is confirmed without a question; for one that exists the
\* user is asked, through the same cancellable read as promptForInput.
ConfirmOverwrite(name, retLabel) ==
    IF Exists(name)
    THEN /\ promptForInput("PromptConfirmOverwrite", name, "co_ret")
         /\ coRet' = retLabel
         /\ co' = [co EXCEPT !.name = name]
         /\ UNCHANGED <<entry, fileType, upd, sigs, stdin, stdinState, res, rep, locals, world, status, retErr>>
    ELSE /\ co' = [ok |-> TRUE, err |-> Nil, name |-> name,
                   confirmed |-> co.confirmed \cup {name}]
         /\ pc' = retLabel
         /\ UNCHANGED <<entry, fileType, upd, late, ret, coRet, sigs, input, res, rep, locals, world, out, status, retErr>>

\* ConfirmOverwrite, after the answer: only "yes" in any case confirms
ConfirmOverwriteAnswered ==
    /\ Running /\ pc = "co_ret"
    /\ co' = IF res.err # Nil
             THEN [co EXCEPT !.ok = FALSE, !.err = res.err]
             ELSE [co EXCEPT !.ok = (ToLower(res.input) = sYes), !.err = Nil,
                             !.confirmed = IF ToLower(res.input) = sYes
                                           THEN co.confirmed \cup {co.name}
                                           ELSE co.confirmed]
    /\ pc' = coRet
    /\ UNCHANGED <<entry, fileType, upd, late, ret, coRet, sigs, input, res, rep, locals, world, out, status, retErr>>

\* -------------------------------------------------------- processCSVOption
\* main.go:182  promptForInput(ctx, reader, PromptSelectCSVOutputFormat)
processCSVOption_prompt ==
    /\ Running /\ pc = "csv_format"
    /\ promptForInput("PromptSelectCSVOutputFormat", << >>, "csv_format_ret")
    /\ PromptFrame

\* main.go:183-203, and executeCSVConversion's dispatch at main.go:324
processCSVOption ==
    /\ Running /\ pc = "csv_format_ret"
    /\ IF res.err # Nil
       THEN inlineInputError(res.err) /\ ExitFrame
       ELSE IF ~Atoi(res.input).ok
       THEN mainReturns({Msg("InvalidFormatOption", << >>)}) /\ ExitFrame
       ELSE /\ formatOption' = Atoi(res.input).val
            /\ pc' = IF Atoi(res.input).val # OutputFormatSeparateCSV
                     THEN "csv_name" ELSE "sep_sessions"
            /\ UNCHANGED <<jsonFilePath, csvFileName, sessionsFileName, messagesFileName, fileName>>
            /\ MoveFrame

\* ----------------------------------------------------- executeCSVConversion
\* main.go:325  promptForInput(ctx, reader, PromptEnterCSVFileName)
executeCSVConversion_prompt ==
    /\ Running /\ pc = "csv_name"
    /\ promptForInput("PromptEnterCSVFileName", << >>, "csv_name_ret")
    /\ PromptFrame

\* main.go:326-341
executeCSVConversion ==
    /\ Running /\ pc = "csv_name_ret"
    /\ IF res.err # Nil
       THEN handleInputError(res.err) /\ ExitFrame
       ELSE /\ csvFileName' = res.input
            /\ pc' = "single_confirm"
            /\ UNCHANGED <<jsonFilePath, formatOption, sessionsFileName, messagesFileName, fileName>>
            /\ MoveFrame

\* ------------------------------------------------------- convertToSingleCSV
\* main.go:402  interactivity.ConfirmOverwrite(rfs, ctx, reader, csvFileName)
convertToSingleCSV_confirm ==
    /\ Running /\ pc = "single_confirm"
    /\ ConfirmOverwrite(csvFileName, "single_confirm_ret")

\* a mutant of convertToSingleCSV_confirmed: a declined overwrite is ignored
convertToSingleCSV_confirmedAnyway ==
    /\ Running /\ pc = "single_confirm_ret"
    /\ IF co.err # Nil
       THEN mainReturns({Msg("FailedToCheckFileExistence", << >>)}) /\ ExitFrame
       ELSE /\ pc' = "single_convert"
            /\ UNCHANGED locals
            /\ MoveFrame

\* main.go:403-410
convertToSingleCSV_confirmed ==
    /\ Running /\ pc = "single_confirm_ret"
    /\ IF co.err # Nil
       THEN mainReturns({Msg("FailedToCheckFileExistence", << >>)}) /\ ExitFrame
       ELSE IF ~co.ok
       THEN mainReturns({Msg("OperationCancelledByUser", << >>)}) /\ ExitFrame
       ELSE /\ pc' = "single_convert"
            /\ UNCHANGED locals
            /\ MoveFrame

\* the file exporter.ConvertSessionsToCSV creates is the destination the
\* caller names
CSVPath(name) == name

\* exporter.ConvertSessionsToCSV(ctx, sessions, formatOption, csvFileName):
\* the result is one of: cancelled between two sessions (only once the
\* context is cancelled), an unknown layout, a failed write, success.
ConvertSessionsToCSV(outcome) ==
    CASE outcome = Canceled ->
            /\ ctxDone
            /\ UNCHANGED world
      [] outcome = ErrFormat ->
            /\ formatOption \notin {OutputFormatInline, OutputFormatPerLine, OutputFormatJSONInCSV}
            /\ UNCHANGED world
      [] outcome = ErrIO ->
            /\ formatOption \in {OutputFormatInline, OutputFormatPerLine, OutputFormatJSONInCSV}
            /\ WriteFile("ConvertSessionsToCSV", CSVPath(csvFileName), "csv", FALSE)
      [] outcome = Nil ->
            /\ formatOption \in {OutputFormatInline, OutputFormatPerLine, OutputFormatJSONInCSV}
            /\ WriteFile("ConvertSessionsToCSV", CSVPath(csvFileName), "csv", TRUE)

\* main.go:412-421
convertToSingleCSV_convert ==
    /\ Running /\ pc = "single_convert"
    /\ \E outcome \in {Canceled, ErrFormat, ErrIO, Nil} :
        /\ ConvertSessionsToCSV(outcome)
        /\ out' = out \cup {CASE outcome = Canceled -> Msg("OperationWasCanceled", << >>)
                      [] outcome = Nil -> Msg("CSVSavedTo", csvFileName)
                      [] OTHER -> Msg("FailedToConvert", << >>)}
    /\ status' = "exit0"
    /\ pc' = "exited"
    /\ UNCHANGED <<entry, fileType, upd, late, ret, coRet, sigs, input, res, co, rep, locals, retErr>>

\* --------------------------------------------------- createSeparateCSVFiles
\* main.go:347  promptForInput(ctx, reader, PromptEnterSessionsCSVFileName)
createSeparateCSVFiles_promptSessions ==
    /\ Running /\ pc = "sep_sessions"
    /\ promptForInput("PromptEnterSessionsCSVFileName", << >>, "sep_sessions_ret")
    /\ PromptFrame

\* main.go:348-351
createSeparateCSVFiles_sessionsRead ==
    /\ Running /\ pc = "sep_sessions_ret"
    /\ IF res.err # Nil
       THEN handleInputError(res.err) /\ ExitFrame
       ELSE /\ sessionsFileName' = res.input
            /\ pc' = "sep_sessions_confirm"
            /\ UNCHANGED <<jsonFilePath, formatOption, csvFileName, messagesFileName, fileName>>
            /\ MoveFrame

\* main.go:354  interactivity.ConfirmOverwrite(rfs, ctx, reader, sessionsFileName)
createSeparateCSVFiles_confirmSessions ==
    /\ Running /\ pc = "sep_sessions_confirm"
    /\ ConfirmOverwrite(sessionsFileName, "sep_sessions_confirm_ret")

\* main.go:355-362
createSeparateCSVFiles_sessionsConfirmed ==
    /\ Running /\ pc = "sep_sessions_confirm_ret"
    /\ IF co.err # Nil
       THEN handleInputError(co.err) /\ ExitFrame
       ELSE IF ~co.ok
       THEN mainReturns({Msg("OperationCancelledForSessionsFile", << >>)}) /\ ExitFrame
       ELSE /\ pc' = "sep_messages"
            /\ UNCHANGED locals
            /\ MoveFrame

\* main.go:364  promptForInput(ctx, reader, PromptEnterMessagesCSVFileName)
createSeparateCSVFiles_promptMessages ==
    /\ Running /\ pc = "sep_messages"
    /\ promptForInput("PromptEnterMessagesCSVFileName", << >>, "sep_messages_ret")
    /\ PromptFrame

\* main.go:365-368
createSeparateCSVFiles_messagesRead ==
    /\ Running /\ pc = "sep_messages_ret"
    /\ IF res.err # Nil
       THEN handleInputError(res.err) /\ ExitFrame
       ELSE /\ messagesFileName' = res.input
            /\ pc' = "sep_messages_confirm"
            /\ UNCHANGED <<jsonFilePath, formatOption, csvFileName, sessionsFileName, fileName>>
            /\ MoveFrame

\* main.go:371  interactivity.ConfirmOverwrite(rfs, ctx, reader, messagesFileName)
createSeparateCSVFiles_confirmMessages ==
    /\ Running /\ pc = "sep_messages_confirm"
    /\ ConfirmOverwrite(messagesFileName, "sep_messages_confirm_ret")

\* a mutant of createSeparateCSVFiles_messagesConfirmed: a declined messages
\* file does not stop the export
createSeparateCSVFiles_messagesConfirmedAnyway ==
    /\ Running /\ pc = "sep_messages_confirm_ret"
    /\ IF co.err # Nil
       THEN handleInputError(co.err) /\ ExitFrame
       ELSE /\ pc' = "sep_export"
            /\ UNCHANGED locals
            /\ MoveFrame

\* main.go:372-379
createSeparateCSVFiles_messagesConfirmed ==
    /\ Running /\ pc = "sep_messages_confirm_ret"
    /\ IF co.err # Nil
       THEN handleInputError(co.err) /\ ExitFrame
       ELSE IF ~co.ok
       THEN mainReturns({Msg("OperationCancelledForMessagesFile", << >>)}) /\ ExitFrame
       ELSE /\ pc' = "sep_export"
            /\ UNCHANGED locals
            /\ MoveFrame

\* exporter.CreateSeparateCSVFiles(sessions, sessionsFileName, messagesFileName):
\* the sessions file is written, then the messages file; either write may
\* fail, and the call takes no context.
CreateSeparateCSVFiles(outcome) ==
    CASE outcome = "sessions failed" ->
            /\ writes' = Append(writes, WriteRec("CreateSeparateCSVFiles", sessionsFileName, FALSE))
            /\ fs' = fs
      [] outcome = "messages failed" ->
            /\ sessionsFileName # << >>
            /\ writes' = writes \o <<WriteRec("CreateSeparateCSVFiles", sessionsFileName, TRUE),
                                     WriteRec("CreateSeparateCSVFiles", messagesFileName, FALSE)>>
            /\ fs' = [p \in DOMAIN fs \cup {sessionsFileName} |->
                        IF p = sessionsFileName THEN "csv" ELSE fs[p]]
      [] outcome = Nil ->
            /\ sessionsFileName # << >> /\ messagesFileName # << >>
            /\ writes' = writes \o <<WriteRec("CreateSeparateCSVFiles", sessionsFileName, TRUE),
                                     WriteRec("CreateSeparateCSVFiles", messagesFileName, TRUE)>>
            /\ fs' = [p \in DOMAIN fs \cup {sessionsFileName, messagesFileName} |->
                        IF p \in {sessionsFileName, messagesFileName} THEN "csv" ELSE fs[p]]

\* main.go:381-395
createSeparateCSVFiles_export ==
    /\ Running /\ pc = "sep_export"
    /\ \E outcome \in {"sessions failed", "messages failed", Nil} :
        /\ CreateSeparateCSVFiles(outcome)
        /\ IF outcome # Nil
           THEN /\ out' = out \cup {Msg("ErrorReadingInput", << >>)}
                /\ status' = "exit1"
           ELSE /\ out' = out \cup {Msg("SessionsSavedTo", sessionsFileName),
                                      Msg("MessagesSavedTo", messagesFileName)}
                /\ status' = "exit0"
    /\ pc' = "exited"
    /\ UNCHANGED <<entry, fileType, upd, late, ret, coRet, sigs, input, res, co, rep, locals, retErr>>

\* ---------------------------------------------------- processDatasetOption
\* main.go:209-221  exporter.ExtractToDataset(sessions) fails only on an
\* internal serialization error
processDatasetOption ==
    /\ Running /\ pc = "ds_extract"
    /\ \E extractErr \in {Nil, ErrOther} :
        IF extractErr # Nil
        THEN inlineInputError(extractErr) /\ ExitFrame
        ELSE /\ pc' = "save_ask"
             /\ UNCHANGED locals
             /\ MoveFrame

\* --------------------------------------------------------------- saveToFile
\* main.go:228  promptForInput(ctx, reader, PromptSaveOutputToFile)
saveToFile_promptSave ==
    /\ Running /\ pc = "save_ask"
    /\ promptForInput("PromptSaveOutputToFile", << >>, "save_ask_ret")
    /\ PromptFrame

\* a mutant of saveToFile_saveRead: the answer is not looked at
saveToFile_saveReadAlways ==
    /\ Running /\ pc = "save_ask_ret"
    /\ IF res.err # Nil
       THEN handleInputError(res.err) /\ ExitFrame
       ELSE /\ pc' = "save_name"
            /\ UNCHANGED locals
            /\ MoveFrame

\* main.go:229-234 and 274-276
saveToFile_saveRead ==
    /\ Running /\ pc = "save_ask_ret"
    /\ IF res.err # Nil
       THEN handleInputError(res.err) /\ ExitFrame
       ELSE IF ToLower(res.input) # sYes
       THEN mainReturns({Msg("SaveCancelledByUser", << >>)}) /\ ExitFrame
       ELSE /\ pc' = "save_name"
            /\ UNCHANGED locals
            /\ MoveFrame

\* main.go:236  promptForInput(ctx, reader, fmt.Sprintf(PromptEnterFileName, fileType))
saveToFile_promptName ==
    /\ Running /\ pc = "save_name"
    /\ promptForInput("PromptEnterFileName", fileType, "save_name_ret")
    /\ PromptFrame

\* main.go:249-253
WithExtension(name, type) ==
    IF type = FileTypeDataset THEN name \o sDotJson ELSE name \o sDotCsv

\* main.go:237-253
saveToFile_nameRead ==
    /\ Running /\ pc = "save_name_ret"
    /\ IF res.err # Nil
       THEN handleInputError(res.err) /\ ExitFrame
       ELSE IF res.input = << >>
       THEN mainReturns({Msg("NoFileNameEntered", << >>)}) /\ ExitFrame
       ELSE /\ fileName' = WithExtension(res.input, fileType)
            /\ pc' = "save_confirm"
            /\ UNCHANGED <<jsonFilePath, formatOption, csvFileName, sessionsFileName, messagesFileName>>
            /\ MoveFrame

\* main.go:256  interactivity.ConfirmOverwrite(rfs, ctx, reader, fileName)
saveToFile_confirm ==
    /\ Running /\ pc = "save_confirm"
    /\ ConfirmOverwrite(fileName, "save_confirm_ret")

\* main.go:257-264
saveToFile_confirmed ==
    /\ Running /\ pc = "save_confirm_ret"
    /\ IF co.err # Nil
       THEN handleInputError(co.err) /\ ExitFrame
       ELSE IF ~co.ok
       THEN mainReturns({Msg("OperationCancelledByUser", << >>)}) /\ ExitFrame
       ELSE /\ pc' = "save_write"
            /\ UNCHANGED locals
            /\ MoveFrame

\* a mutant of saveToFile_write: success is reported whatever WriteFile returns
saveToFile_writeOptimistic ==
    /\ Running /\ pc = "save_write"
    /\ \E ok \in BOOLEAN :
        /\ WriteFile("saveToFile", fileName, "dataset", ok)
        /\ out' = out \cup {Msg("OutputSavedTo", fileName)}
    /\ status' = "exit0"
    /\ pc' = "exited"
    /\ UNCHANGED <<entry, fileType, upd, late, ret, coRet, sigs, input, res, co, rep, locals, retErr>>

\* main.go:267-273
saveToFile_write ==
    /\ Running /\ pc = "save_write"
    /\ \E ok \in BOOLEAN :
        /\ WriteFile("saveToFile", fileName, "dataset", ok)
        /\ out' = out \cup {IF ok THEN Msg("OutputSavedTo", fileName)
                                    ELSE Msg("ErrorWritingFile", << >>)}
    /\ status' = "exit0"
    /\ pc' = "exited"
    /\ UNCHANGED <<entry, fileType, upd, late, ret, coRet, sigs, input, res, co, rep, locals, retErr>>

\* ------------------------------------------------------- writeContentToFile
\* main.go:427  promptForInput(ctx, reader, fmt.Sprintf(PromptEnterFileName, fileType))
writeContentToFile_prompt ==
    /\ Running /\ pc = "wc_name"
    /\ promptForInput("PromptEnterFileName", fileType, "wc_name_ret")
    /\ PromptFrame

\* main.go:428-434
writeContentToFile_nameRead ==
    /\ Running /\ pc = "wc_name_ret"
    /\ IF res.err # Nil
       THEN /\ retErr' = res.err
            /\ status' = "returned"
            /\ pc' = "exited"
            /\ UNCHANGED <<entry, fileType, upd, late, ret, coRet, sigs, input, res, co, rep, locals, world, out>>
       ELSE /\ fileName' = IF fileType = FileTypeDataset THEN res.input \o sDotJson ELSE res.input
            /\ pc' = "wc_write"
            /\ UNCHANGED <<jsonFilePath, formatOption, csvFileName, sessionsFileName, messagesFileName>>
            /\ MoveFrame

\* main.go:437-443
writeContentToFile_write ==
    /\ Running /\ pc = "wc_write"
    /\ \E ok \in BOOLEAN :
        /\ WriteFile("writeContentToFile", fileName, "content", ok)
        /\ out' = IF ok THEN out \cup {Msg("OutputSavedTo", fileName)} ELSE out
        /\ retErr' = IF ok THEN Nil ELSE ErrIO
    /\ status' = "returned"
    /\ pc' = "exited"
    /\ UNCHANGED <<entry, fileType, upd, late, ret, coRet, sigs, input, res, co, rep, locals>>

\* ------------------------------------------------------- UpdateApplication
UpdaterFrame ==
    UNCHANGED <<fileType, ret, coRet, late, sigs, input, res, co, rep, locals, writes>>

\* UpdateApplication returns err
updaterReturns(err, msgs) ==
    /\ retErr' = err
    /\ out' = out \cup msgs
    /\ status' = "returned"
    /\ pc' = "exited"

\* a mutant of UpdateApplication_check: the tag is not compared
UpdateApplication_checkAlways ==
    /\ Running /\ pc = "u_fetch"
    /\ \/ /\ updaterReturns("error fetching latest release", {})
          /\ UNCHANGED <<entry, upd, fs>>
       \/ \E tag \in Tags, hasAsset \in BOOLEAN :
            /\ upd' = [upd EXCEPT !.tag = tag, !.hasAsset = hasAsset]
            /\ out' = out \cup {Msg("ReleaseNotes", tag)}
            /\ pc' = "u_download"
            /\ UNCHANGED <<entry, fs, status, retErr>>
    /\ UpdaterFrame

\* UpdateApplication up to the call of downloadAndUpdate: getLatestRelease
\* fails, or yields a release whose tag is compared with currentVersion
UpdateApplication_check ==
    /\ Running /\ pc = "u_fetch"
    /\ \/ /\ updaterReturns("error fetching latest release", {})
          /\ UNCHANGED <<entry, upd, fs>>
       \/ \E tag \in Tags, hasAsset \in BOOLEAN :
            /\ upd' = [upd EXCEPT !.tag = tag, !.hasAsset = hasAsset]
            /\ IF tag = currentVersion
               THEN updaterReturns(Nil, {Msg("NoUpdateAvailable", << >>)})
               ELSE /\ out' = out \cup {Msg("ReleaseNotes", tag)}
                    /\ pc' = "u_download"
                    /\ UNCHANGED <<status, retErr>>
            /\ UNCHANGED <<entry, fs>>
    /\ UpdaterFrame

\* downloadAndUpdate with findMatchingAsset and downloadAsset, and the
\* caller's handling of its error
downloadAndUpdate ==
    /\ Running /\ pc = "u_download"
    /\ LET started == {Msg("UpdateAvailable", upd.tag), Msg("DownloadingUpdate", << >>)} IN
       IF ~upd.hasAsset
       THEN /\ updaterReturns("no binary for the current platform", started)
            /\ UNCHANGED <<entry, upd, fs>>
       ELSE \E outcome \in {"error downloading update", "error creating temp file",
                            "copy error", Nil} :
               /\ fs' = IF outcome \in {"copy error", Nil} THEN Written(sTemp, "download") ELSE fs
               /\ IF outcome # Nil
                  THEN /\ updaterReturns(outcome, started)
                       /\ UNCHANGED <<entry, upd>>
                  ELSE /\ upd' = [upd EXCEPT !.temp = sTemp]
                       /\ out' = out \cup started \cup {Msg("UpdateDownloaded", << >>)}
                       /\ pc' = "u_apply"
                       /\ UNCHANGED <<entry, status, retErr>>
    /\ UpdaterFrame

\* applyUpdate: interactivity.ConfirmOverwrite(rfs, ctx, reader, binary)
applyUpdate_confirm ==
    /\ Running /\ pc = "u_apply"
    /\ ConfirmOverwrite(sBinary, "u_apply_ret")

\* the file system after os.Rename(from, to)
Renamed(from, to) ==
    [p \in (DOMAIN fs \ {from}) \cup {to} |-> IF p = to THEN fs[from] ELSE fs[p]]

\* applyUpdate after the confirmation, and the caller's handling of its error
applyUpdate ==
    /\ Running /\ pc = "u_apply_ret"
    /\ IF co.err # Nil
       THEN /\ updaterReturns("error during overwrite confirmation", {})
            /\ UNCHANGED <<entry, upd, fs>>
       ELSE IF ~co.ok
       THEN /\ out' = out \cup {Msg("UpdateCancelledByUser", << >>)}
            /\ pc' = "u_restart"
            /\ UNCHANGED <<entry, upd, fs, status, retErr>>
       ELSE \E renamed \in BOOLEAN :
               IF renamed
               THEN /\ fs' = Renamed(upd.temp, sBinary)
                    /\ upd' = [upd EXCEPT !.replaced = TRUE]
                    /\ pc' = "u_restart"
                    /\ UNCHANGED <<entry, out, status, retErr>>
               ELSE /\ updaterReturns("error replacing binary", {})
                    /\ UNCHANGED <<entry, upd, fs>>
    /\ UpdaterFrame

\* restartApplication, and UpdateApplication's return nil after it
restartApplication ==
    /\ Running /\ pc = "u_restart"
    /\ \E started \in BOOLEAN :
        IF started
        THEN /\ upd' = [upd EXCEPT !.restarted = TRUE]
             /\ out' = out \cup {Msg("UpdateAppliedRestarting", << >>)}
             /\ status' = "exit0"
             /\ pc' = "exited"
             /\ UNCHANGED retErr
        ELSE /\ updaterReturns(Nil, {Msg("UpdateAppliedRestarting", << >>),
                                     Msg("ErrorRestarting", << >>)})
             /\ UNCHANGED upd
    /\ UNCHANGED <<entry, fs>>
    /\ UpdaterFrame

\* -------------------------------------------------------------------- Next
Next ==
    \/ UserTypes
    \/ UserCloses
    \/ StdinFails
    \/ Signal
    \/ CallerCancels
    \/ setupSignalHandling
    \/ ReaderRead
    \/ selectCtxDone
    \/ selectResult
    \/ main_promptPath
    \/ main_pathRead
    \/ main_promptRepair
    \/ main_repairRead
    \/ repairJSONData
    \/ main_repaired
    \/ main_load
    \/ main_promptOutput
    \/ main_outputRead
    \/ ConfirmOverwriteAnswered
    \/ processCSVOption_prompt
    \/ processCSVOption
    \/ executeCSVConversion_prompt
    \/ executeCSVConversion
    \/ convertToSingleCSV_confirm
    \/ convertToSingleCSV_confirmed
    \/ convertToSingleCSV_convert
    \/ createSeparateCSVFiles_promptSessions
    \/ createSeparateCSVFiles_sessionsRead
    \/ createSeparateCSVFiles_confirmSessions
    \/ createSeparateCSVFiles_sessionsConfirmed
    \/ createSeparateCSVFiles_promptMessages
    \/ createSeparateCSVFiles_messagesRead
    \/ createSeparateCSVFiles_confirmMessages
    \/ createSeparateCSVFiles_messagesConfirmed
    \/ createSeparateCSVFiles_export
    \/ processDatasetOption
    \/ saveToFile_promptSave
    \/ saveToFile_saveRead
    \/ saveToFile_promptName
    \/ saveToFile_nameRead
    \/ saveToFile_confirm
    \/ saveToFile_confirmed
    \/ saveToFile_write
    \/ writeContentToFile_prompt
    \/ writeContentToFile_nameRead
    \/ writeContentToFile_write
    \/ UpdateApplication_check
    \/ downloadAndUpdate
    \/ applyUpdate_confirm
    \/ applyUpdate
    \/ restartApplication

Spec == Init /\ [][Next]_vars

TypeOK ==
    /\ status \in {"running", "exit0", "exit1", "returned"}
    /\ sigBuf \in 0..1
    /\ Len(stdin) <= MaxAhead

\* ================================================================= claims
PromptReturns == {"m_path_ret", "m_repair_ret", "m_option_ret", "csv_format_ret",
                  "csv_name_ret", "sep_sessions_ret", "sep_messages_ret",
                  "save_ask_ret", "save_name_ret"}
ConfirmReturns == {"single_confirm_ret", "sep_sessions_confirm_ret",
                   "sep_messages_confirm_ret", "save_confirm_ret"}
Printed(kind) == \E m \in out : m.msg = kind

\* C1: in saveToFile and writeContentToFile, once the context is cancelled
\* before the write step, WriteFile is not called.
C1_NoWriteAfterCancel ==
    \A i \in 1..Len(writes) :
        writes[i].caller \in {"saveToFile", "writeContentToFile"} => ~writes[i].cancelled

\* C2: a promptForInput that starts after the context was cancelled returns
\* the empty string with the cancellation error, never a line of input.
C2_LatePromptReturnsCanceled ==
    (pc # "select" /\ readers # << >> /\ late)
        => res = [input |-> << >>, err |-> Canceled]

\* t is raw without its leading and trailing white space
IsTrimOf(t, raw) ==
    /\ t # << >> => ~IsSpace(t[1]) /\ ~IsSpace(t[Len(t)])
    /\ \E i \in 0..Len(raw) : \E j \in i..Len(raw) :
        /\ t = SubSeq(raw, i + 1, j)
        /\ \A n \in 1..i : IsSpace(raw[n])
        /\ \A n \in (j + 1)..Len(raw) : IsSpace(raw[n])

\* C3: every return of promptForInput is either ("", Canceled) with the
\* context cancelled and the reader's result left unreceived, or the trimmed
\* line and the error of the read made by this very call; a reader whose call
\* has returned without it never delivers its result.
C3_FirstToCompleteWins ==
    [][ /\ (pc = "select" /\ pc' # "select") =>
            LET k == Len(readers) IN
            \/ /\ ctxDone
               /\ res' = [input |-> << >>, err |-> Canceled]
               /\ readers' = readers
            \/ /\ readers[k].st = "sending"
               /\ IsTrimOf(res'.input, readers[k].input)
               /\ res'.err = readers[k].err
               /\ readers'[k].st = "done"
        /\ pc # "select" => res' = res
        /\ \A j \in 1..Len(readers) :
              (readers[j].st # "done" /\ (j < Len(readers) \/ pc # "select"))
                  => readers'[j].st # "done"
      ]_vars

C3_Witness ==
    /\ pc \in PromptReturns /\ res.err = Nil /\ res.input = <<"Y", "e", "s">>
    /\ readers[Len(readers)].st = "done"

\* C4: in every flow of main, a step that fails with the cancellation error
\* or with end of input ends the process with status 0.
C4_CancellationExitsCleanly ==
    [][ /\ (entry = "main" /\ pc \in PromptReturns /\ GracefulError(res.err) /\ pc' # pc)
            => status' = "exit0"
        /\ (entry = "main" /\ pc \in ConfirmReturns /\ GracefulError(co.err) /\ pc' # pc)
            => status' = "exit0"
        /\ (pc = "single_convert" /\ ~Printed("OperationWasCanceled") /\ Printed("OperationWasCanceled")')
            => status' = "exit0"
        /\ (status' = "exit1" /\ status = "running")
            => ~(pc \in PromptReturns /\ GracefulError(res.err))
               /\ ~(pc \in ConfirmReturns /\ GracefulError(co.err))
      ]_vars

C4_Witness ==
    /\ entry = "main" /\ status = "exit0" /\ pc = "exited"
    /\ res.err = Canceled /\ Printed("ExitingGracefullyReason")

FailureMessages == {"Error", "ErrorReadingOrParsing", "ErrorWritingFile",
                    "FailedToConvert", "InvalidOutputOption", "InvalidFormatOption"}

\* C5: a run of main that reported a repair failure, a load failure, a failed
\* write, a failed conversion or an invalid selection ends with a non-zero status.
C5_FailuresExitNonZero ==
    (entry = "main" /\ status # "running" /\ \E m \in out : m.msg \in FailureMessages)
        => status = "exit1"

\* C6: the error-style message of the file-existence check is not what a
\* cancelled overwrite confirmation prints.
C6_CancellationNotErrorStyle ==
    Printed("FailedToCheckFileExistence") => co.err # Canceled

\* C7: a successful repairJSONData makes exactly one WriteFile call, to
\* "repaired_" followed by the input path, returns that path, and leaves the
\* input path as it was.
C7_RepairNeverOverwritesInput ==
    [][ (pc = "m_repair_call" /\ pc' = "m_repaired" /\ rep'.err = Nil) =>
            /\ Len(writes') = Len(writes) + 1
            /\ writes'[Len(writes')].path = sRepaired \o jsonFilePath
            /\ writes'[Len(writes')].path # jsonFilePath
            /\ writes'[Len(writes')].ok
            /\ rep'.path = sRepaired \o jsonFilePath
            /\ jsonFilePath \in DOMAIN fs /\ jsonFilePath \in DOMAIN fs'
            /\ fs'[jsonFilePath] = fs[jsonFilePath]
            /\ fs'[sRepaired \o jsonFilePath] \in {"good", "repaired"}
      ]_vars

C7_Witness ==
    /\ pc = "m_repaired" /\ rep.err = Nil
    /\ rep.path = sRepaired \o sAjson
    /\ fs[sAjson] = "broken" /\ fs[rep.path] = "repaired"

\* C8: when the read or the repair fails, repairJSONData returns an empty path
\* with the error and writes nothing, and main prints the error and exits with
\* status 1 without the 'saved to' message.
C8_FailedRepairWritesNothing ==
    [][ /\ (pc = "m_repair_call" /\ pc' = "m_repaired"
                /\ (~Exists(jsonFilePath) \/ fs[jsonFilePath] = "junk")) =>
            /\ rep'.err \in {ErrNotExist, ErrRepair}
            /\ rep'.path = << >>
            /\ writes' = writes /\ fs' = fs
        /\ (pc = "m_repaired" /\ rep.err # Nil /\ pc' # pc) =>
            /\ status' = "exit1"
            /\ Printed("Error")'
            /\ ~Printed("RepairedSavedTo")'
      ]_vars

C8_Witness ==
    /\ status = "exit1" /\ rep.err = ErrRepair /\ Printed("Error")
    /\ writes = << >>

\* C9: after a successful repair the run goes on to the Store Loader.
C9_RepairContinuesToLoader ==
    [][ (pc = "m_repaired" /\ rep.err = Nil /\ pc' # pc) => pc' = "m_load" ]_vars

\* C10: for an output option other than "1" and "2", processOutputOption
\* reports the invalid option and returns: no prompt is issued, no formatter
\* or extractor runs, no file is written.
C10_InvalidOutputOptionAborts ==
    [][ (pc = "m_option_ret" /\ res.err = Nil /\ res.input \notin {<<"1">>, <<"2">>} /\ pc' # pc) =>
            /\ out' = out \cup {Msg("InvalidOutputOption", << >>)}
            /\ pc' = "exited" /\ status' = "exit0"
            /\ readers' = readers
            /\ writes' = writes /\ fs' = fs
      ]_vars

C10_Witness ==
    /\ status = "exit0" /\ Printed("InvalidOutputOption")
    /\ res.input = s7 /\ writes = << >>

WritesBy(callers) == { i \in 1..Len(writes) : writes[i].caller \in callers }

\* C11: a CSV layout input that is not one of the layouts 1..4 aborts before
\* any file-name prompt, overwrite confirmation or conversion.
C11_InvalidLayoutAborts ==
    (Printed("PromptEnterCSVFileName") \/ Printed("PromptEnterSessionsCSVFileName"))
        => formatOption \in 1..4

ExportWriters == {"saveToFile", "ConvertSessionsToCSV", "CreateSeparateCSVFiles"}

C13_SeparateExportStopsOnCancel ==
    /\ \A i \in WritesBy({"CreateSeparateCSVFiles"}) : ~writes[i].cancelled
    /\ (Printed("SessionsSavedTo") \/ Printed("MessagesSavedTo"))
          => \A i \in WritesBy({"CreateSeparateCSVFiles"}) : ~writes[i].cancelled

\* C14: the name written by a save ends in the extension of its file type
\* exactly once: ".json" for a dataset, ".csv" otherwise.
C14_ExtensionExactlyOnce ==
    \A i \in WritesBy({"saveToFile", "writeContentToFile"}) :
        LET ext == IF fileType = FileTypeDataset THEN sDotJson ELSE sDotCsv
        IN  /\ HasSuffix(writes[i].path, ext)
            /\ ~HasSuffix(writes[i].path, ext \o ext)

\* C15: the updater restarts the application only after the binary was
\* replaced; a declined overwrite means no replacement and no restart.
C15_RestartOnlyAfterUpdate ==
    /\ upd.restarted => upd.replaced
    /\ Printed("UpdateCancelledByUser") => (~upd.replaced /\ ~upd.restarted)

\* the dot-separated numbers of a version tag
RECURSIVE VersionNumbers(_, _)
VersionNumbers(tag, acc) ==
    IF tag = << >> THEN <<DigitsVal(acc)>>
    ELSE IF Head(tag) = "." THEN <<DigitsVal(acc)>> \o VersionNumbers(Tail(tag), << >>)
    ELSE VersionNumbers(Tail(tag), Append(acc, Head(tag)))

RECURSIVE NumbersLess(_, _)
NumbersLess(a, b) ==
    IF b = << >> THEN FALSE
    ELSE IF a = << >> THEN TRUE
    ELSE IF Head(a) # Head(b) THEN Head(a) < Head(b)
    ELSE NumbersLess(Tail(a), Tail(b))

Newer(tag, version) ==
    NumbersLess(VersionNumbers(version, << >>), VersionNumbers(tag, << >>))

\* C16: when the latest tag is equal to or older than currentVersion, nothing
\* is downloaded, confirmed, replaced or restarted.
C16_UpdateOnlyWhenNewer ==
    (upd.tag # << >> /\ ~Newer(upd.tag, currentVersion)) =>
        /\ ~Printed("DownloadingUpdate")
        /\ upd.temp = << >> /\ sTemp \notin DOMAIN fs
        /\ co.name # sBinary
        /\ ~upd.replaced /\ ~upd.restarted

\* C17: UpdateApplication returns nil only when the application is up to
\* date or the update was applied.
C17_NilOnlyWhenUpToDateOrApplied ==
    (entry = "UpdateApplication" /\ status = "returned" /\ retErr = Nil)
        => (upd.tag = currentVersion \/ upd.replaced)

\* C18: after a signal delivered while main is blocked at a prompt, the
\* process ends with status 0 and makes no WriteFile call.
C18_InterruptEndsCleanly ==
    sigAtPrompt =>
        /\ status \in {"running", "exit0"}
        /\ \A i \in 1..Len(writes) : ~writes[i].signalled

SeparateConfirmReturns == {"sep_sessions_confirm_ret", "sep_messages_confirm_ret"}

\* C19: createSeparateCSVFiles asks for the sessions name, confirms it, asks
\* for the messages name, confirms it, and only then exports; a failed prompt
\* or a declined confirmation ends the flow without the export, so no file is
\* produced when the messages file was declined.
C19_SeparateExportAllOrNothing ==
    [][ /\ (pc' = "sep_export" /\ pc # "sep_export") =>
              /\ pc = "sep_messages_confirm_ret" /\ co.ok /\ co.err = Nil
              /\ {sessionsFileName, messagesFileName} \subseteq co.confirmed
              /\ Printed("PromptEnterSessionsCSVFileName")
              /\ Printed("PromptEnterMessagesCSVFileName")
        /\ (Printed("PromptEnterMessagesCSVFileName")' /\ ~Printed("PromptEnterMessagesCSVFileName"))
              => (sessionsFileName \in co.confirmed /\ Printed("PromptEnterSessionsCSVFileName"))
        /\ (\E i \in 1..Len(writes') : writes'[i].caller = "CreateSeparateCSVFiles")
              => pc = "sep_export"
        /\ (pc \in SeparateConfirmReturns /\ (~co.ok \/ co.err # Nil) /\ pc' # pc)
              => (pc' = "exited" /\ writes' = writes /\ fs' = fs)
        /\ (pc \in {"sep_sessions_ret", "sep_messages_ret"} /\ res.err # Nil /\ pc' # pc)
              => (pc' = "exited" /\ writes' = writes /\ fs' = fs)
        /\ (Printed("OperationCancelledForMessagesFile")' \/ Printed("OperationCancelledForSessionsFile")')
              => writes' = << >>
      ]_vars

C19_Witness ==
    /\ status = "exit0" /\ Printed("OperationCancelledForMessagesFile")
    /\ sessionsFileName \in co.confirmed /\ messagesFileName \notin co.confirmed
    /\ writes = << >>

IsYesAnyCase(s) ==
    /\ Len(s) = 3
    /\ s[1] \in {"y", "Y"} /\ s[2] \in {"e", "E"} /\ s[3] \in {"s", "S"}

\* C20: saveToFile calls WriteFile at most once, and only after the save
\* question was answered yes in any case, a non-empty name was entered and the
\* overwrite confirmation returned true; otherwise the file system is left as
\* it was.
C20_SaveOnlyOnFullConsent ==
    [][ /\ Cardinality({ i \in 1..Len(writes') : writes'[i].caller = "saveToFile" }) <= 1
        /\ (pc = "save_ask_ret" /\ pc' = "save_name")
              => (res.err = Nil /\ IsYesAnyCase(res.input))
        /\ (pc = "save_name_ret" /\ pc' = "save_confirm")
              => (res.err = Nil /\ res.input # << >> /\ fileName' = res.input \o sDotJson)
        /\ (pc' = "save_write" /\ pc # "save_write")
              => /\ pc = "save_confirm_ret" /\ co.ok /\ co.err = Nil
                 /\ fileName \in co.confirmed
                 /\ Printed("PromptSaveOutputToFile") /\ Printed("PromptEnterFileName")
        /\ (entry = "main" /\ Printed("PromptSaveOutputToFile")' /\ pc # "save_write")
              => (writes' = writes /\ fs' = fs /\ writes = << >>)
      ]_vars

C20_Witness ==
    /\ \E i \in 1..Len(writes) :
          /\ writes[i].caller = "saveToFile" /\ writes[i].ok
          /\ writes[i].path = sAjsonJson
    /\ fs[sAjsonJson] = "dataset" /\ Printed("OutputSavedTo")

\* C21: a failed load is terminal: main prints the error and exits with
\* status 1 before the output-format prompt, and nothing is written.
C21_LoadFailureIsTerminal ==
    [][ /\ (pc = "m_load" /\ ReadJSONFromFile(jsonFilePath) # Nil /\ pc' # pc) =>
              /\ pc' = "exited" /\ status' = "exit1"
              /\ Printed("ErrorReadingOrParsing")'
              /\ ~Printed("PromptSelectOutputFormat")'
              /\ writes' = << >> /\ fs' = fs
        /\ Printed("ErrorReadingOrParsing")' =>
              /\ pc' = "exited" /\ status' = "exit1"
              /\ ~Printed("PromptSelectOutputFormat")'
              /\ writes' = << >> /\ fs' \in InitialFS
      ]_vars

C21_Witness ==
    /\ Printed("ErrorReadingOrParsing") /\ status = "exit1"
    /\ jsonFilePath = sAjson /\ Exists(sAjson) /\ fs[sAjson] # "good"
    /\ writes = << >>

\* the caller whose successful write a success message reports
SavedBy(kind) ==
    CASE kind = "RepairedSavedTo" -> {"repairJSONData"}
      [] kind = "OutputSavedTo"   -> {"saveToFile", "writeContentToFile"}
      [] kind = "CSVSavedTo"      -> {"ConvertSessionsToCSV"}
      [] kind \in {"SessionsSavedTo", "MessagesSavedTo"} -> {"CreateSeparateCSVFiles"}
      [] OTHER -> {}

SavedMessages == { m \in out : SavedBy(m.msg) # {} }

EndedWithoutSaving ==
    {"OperationCancelledByUser", "OperationCancelledForSessionsFile",
     "OperationCancelledForMessagesFile", "SaveCancelledByUser", "NoFileNameEntered",
     "OperationWasCanceled", "ExitingGracefullyReason", "FailedToCheckFileExistence",
     "FailedToConvert", "ErrorWritingFile", "Error"}

\* C22: a "saved to" message for a destination is printed only if the write
\* or export call for that destination returned no error, and never after an
\* operation that failed, was declined or returned cancellation.
C22_SuccessOnlyAfterWrite ==
    /\ \A m \in SavedMessages :
          \E i \in 1..Len(writes) :
              /\ writes[i].ok /\ writes[i].path = m.arg
              /\ writes[i].caller \in SavedBy(m.msg)
    /\ (\E i \in 1..Len(writes) : ~writes[i].ok) => SavedMessages = {}
    /\ (\E k \in EndedWithoutSaving : Printed(k)) => SavedMessages = {}
    /\ (status = "returned" /\ retErr # Nil) => SavedMessages = {}

C22_Witness ==
    /\ \E i \in 1..Len(writes) : writes[i].caller = "saveToFile" /\ ~writes[i].ok
    /\ Printed("ErrorWritingFile") /\ ~Printed("OutputSavedTo")

\* a reader task whose promptForInput call has ended without receiving from it
Abandoned(k) ==
    /\ readers[k].st # "done"
    /\ (k < Len(readers) \/ pc # "select")

\* C23: when cancellation wins in promptForInput the reader task is left
\* behind: nobody ever receives its result, once its read completes it stays
\* blocked on the send for good, and the line it read is taken from the input.
C23_AbandonedReaderNeverDelivers ==
    [][ /\ (pc = "select" /\ pc' # pc /\ res'.err = Canceled) =>
              /\ readers' = readers
              /\ readers[Len(readers)].st \in {"reading", "sending"}
        /\ \A k \in 1..Len(readers) : Abandoned(k) =>
              /\ k <= Len(readers') /\ Abandoned(k)'
              /\ readers[k].st = "sending" => readers'[k] = readers[k]
              /\ (readers[k].st = "reading" /\ readers'[k].st = "sending" /\ stdin # << >>) =>
                    /\ readers'[k].input = Head(stdin)
                    /\ stdin' = Tail(stdin)
              /\ res' # res => (pc = "select" /\ k < Len(readers))
      ]_vars

C23_Witness ==
    /\ entry = "writeContentToFile" /\ status = "returned" /\ retErr = Canceled
    /\ readers[Len(readers)].st = "sending"
    /\ readers[Len(readers)].input = sAjson \o sNL
    /\ stdin = << >> /\ writes = << >>

Reading == { k \in 1..Len(readers) : readers[k].st = "reading" }

\* C24: in a run of main at most one read of the input reader is outstanding:
\* no prompt starts while the reader of an earlier prompt is still reading,
\* and no prompt starts after a prompt returned the cancellation error.
C24_OneOutstandingRead ==
    [][ entry = "main" =>
          /\ Cardinality(Reading') <= 1
          /\ Len(readers') > Len(readers) => Reading = {}
          /\ (res.err = Canceled /\ pc # "select") => Len(readers') = Len(readers)
      ]_vars

C24_Witness ==
    /\ entry = "main" /\ status = "exit0" /\ res.err = Canceled
    /\ Len(readers) = 2 /\ Reading = {2}

\* C25: when the latest tag equals currentVersion, UpdateApplication reports
\* that no update is available and returns nil without a download, a temporary
\* file, an overwrite confirmation, a replaced binary or a restart.
C25_UpToDateDoesNothing ==
    upd.tag = currentVersion =>
        /\ status = "returned" /\ retErr = Nil /\ pc = "exited"
        /\ out = {Msg("NoUpdateAvailable", << >>)}
        /\ upd.temp = << >> /\ fs \in UpdaterFS
        /\ co = NoCo /\ readers = << >>
        /\ ~upd.replaced /\ ~upd.restarted

C25_Witness ==
    /\ entry = "UpdateApplication" /\ upd.tag = currentVersion
    /\ status = "returned" /\ Printed("NoUpdateAvailable")

====
